---- MODULE Spec2Model ----
(***************************************************************************)
(* A model of rxn_parser.js: ChemFormula, ChemState and RxnEquation.       *)
(* Text is a sequence of one-character strings; every regular expression   *)
(* of the source is modelled by the match JavaScript computes for it       *)
(* (leftmost start, greedy groups, backtracking).                          *)
(***************************************************************************)
EXTENDS Integers, Sequences, FiniteSets, TLC

VARIABLES input, pc, obj, out, elem, prop

vars == <<input, pc, obj, out, elem, prop>>

(***************************************************************************)
(* Character classes of the regular expressions.                           *)
(***************************************************************************)
Digits == {"0", "1", "2", "3", "4", "5", "6", "7", "8", "9"}

Lower == {"a", "b", "c", "d", "e", "f", "g", "h", "i", "j", "k", "l", "m",
          "n", "o", "p", "q", "r", "s", "t", "u", "v", "w", "x", "y", "z"}

Upper == {"A", "B", "C", "D", "E", "F", "G", "H", "I", "J", "K", "L", "M",
          "N", "O", "P", "Q", "R", "S", "T", "U", "V", "W", "X", "Y", "Z"}

\* \w
WordChars == Digits \cup Lower \cup Upper \cup {"_"}

\* [\w\*-]
SpeciesChars == WordChars \cup {"*", "-"}

\* [a-z\*]
SiteChars == Lower \cup {"*"}

\* [a-zA-Z\*]
ElemChars == Lower \cup Upper \cup {"*"}

\* every character except the two of [^\<\>]
AngleChars == {"<", ">"}

\* \s, as far as the texts of the model have it
Whitespace == {" "}

(***************************************************************************)
(* Values that are not text, objects or mappings.                          *)
(***************************************************************************)
NoObj == [type |-> "none"]

Undefined == [type |-> "undefined"]

NoMatch == [type |-> "nomatch"]

\* the TypeError of reading .length of null
TypeError == [type |-> "TypeError"]

(***************************************************************************)
(* Text helpers.                                                           *)
(***************************************************************************)
MinOf(S) == CHOOSE x \in S : \A y \in S : x <= y

MaxOf(S) == CHOOSE x \in S : \A y \in S : x >= y

\* s[from .. to - 1]
Slice(s, from, to) == SubSeq(s, from, to - 1)

\* the first index >= p of s that holds no character of class (Len(s)+1 if
\* none): where a greedy class* that starts at p stops
RECURSIVE RunEnd(_, _, _)
RunEnd(s, p, class) ==
    IF p > Len(s) \/ s[p] \notin class THEN p ELSE RunEnd(s, p + 1, class)

DigitVal(c) ==
    CASE c = "0" -> 0 [] c = "1" -> 1 [] c = "2" -> 2 [] c = "3" -> 3
      [] c = "4" -> 4 [] c = "5" -> 5 [] c = "6" -> 6 [] c = "7" -> 7
      [] c = "8" -> 8 [] c = "9" -> 9

RECURSIVE parseInt(_)
parseInt(ds) ==
    IF ds = <<>> THEN 0
    ELSE 10 * parseInt(SubSeq(ds, 1, Len(ds) - 1)) + DigitVal(ds[Len(ds)])

\* String.prototype.trim
trim(s) ==
    LET keep == {i \in 1..Len(s) : s[i] \notin Whitespace}
    IN  IF keep = {} THEN <<>> ELSE SubSeq(s, MinOf(keep), MaxOf(keep))

\* String.prototype.split(sep) for a one-character separator
RECURSIVE splitChar(_, _)
splitChar(s, sep) ==
    LET at == {i \in 1..Len(s) : s[i] = sep}
    IN  IF at = {} THEN <<s>>
        ELSE <<Slice(s, 1, MinOf(at))>>
             \o splitChar(SubSeq(s, MinOf(at) + 1, Len(s)), sep)

(***************************************************************************)
(* Mappings (JavaScript objects used as dictionaries): keys in insertion   *)
(* order, which is the order for-in enumerates them in, and their values.  *)
(* A value is the number val[k], or, where text[k] is not empty, the       *)
(* string made of the text of the function Object followed by the digits   *)
(* text[k]: what `+=` leaves under a key the object had only inherited.    *)
(***************************************************************************)
EmptyMap ==
    [type |-> "map", keys |-> <<>>, val |-> [k \in {} |-> 0],
     text |-> [k \in {} |-> <<>>]]

\* the properties every object inherits whose names a key can spell (sites
\* are lowercase letters and `*`, elements one character)
ObjectPrototype == {<<"c", "o", "n", "s", "t", "r", "u", "c", "t", "o", "r">>}

DigitChar(d) ==
    CASE d = 0 -> "0" [] d = 1 -> "1" [] d = 2 -> "2" [] d = 3 -> "3"
      [] d = 4 -> "4" [] d = 5 -> "5" [] d = 6 -> "6" [] d = 7 -> "7"
      [] d = 8 -> "8" [] d = 9 -> "9"

\* the decimal digits a number is written with when it is added to a string
RECURSIVE toString(_)
toString(n) ==
    IF n < 10 THEN <<DigitChar(n)>>
    ELSE Append(toString(n \div 10), DigitChar(n % 10))

IsMap(m) == m.type = "map"

KeySet(m) == {m.keys[i] : i \in 1..Len(m.keys)}

\* key in m
MapHas(m, k) == k \in KeySet(m)

\* m[k] = the number v when t is empty, else the string that ends with t
MapPut(m, k, v, t) ==
    [type |-> "map",
     keys |-> IF MapHas(m, k) THEN m.keys ELSE Append(m.keys, k),
     val |-> [x \in KeySet(m) \cup {k} |-> IF x = k THEN v ELSE m.val[x]],
     text |-> [x \in KeySet(m) \cup {k} |-> IF x = k THEN t ELSE m.text[x]]]

\* m[k] = v
MapSet(m, k, v) == MapPut(m, k, v, <<>>)

\* k in m: an own key or an inherited property
MapIn(m, k) == MapHas(m, k) \/ k \in ObjectPrototype

\* m[k] += v: a number grows by v, a string (the inherited function turned
\* into text, or what an earlier += made of it) gets the digits of v
MapPlus(m, k, v) ==
    IF ~MapHas(m, k) THEN MapPut(m, k, 0, toString(v))
    ELSE IF m.text[k] # <<>> THEN MapPut(m, k, 0, m.text[k] \o toString(v))
    ELSE MapSet(m, k, m.val[k] + v)

\* if (k in m) m[k] += v; else m[k] = v
MapAdd(m, k, v) ==
    IF MapIn(m, k) THEN MapPlus(m, k, v) ELSE MapSet(m, k, v)

(***************************************************************************)
(* ChemFormula                                                             *)
(***************************************************************************)
\* ([\w\*-]*)_(\d*)([a-z\*]+) tried at q: the places e of the `_` it can
\* match with, species characters before it and the digits and a non-empty
\* site after it
formulaUnderscores(s, q) ==
    {e \in q..Len(s) :
        /\ s[e] = "_"
        /\ \A i \in q..(e - 1) : s[i] \in SpeciesChars
        /\ RunEnd(s, RunEnd(s, e + 1, Digits), SiteChars)
              > RunEnd(s, e + 1, Digits)}

\* the groups of the match that starts at p, group 2 at q and has its `_`
\* at e
formulaGroupsAround(s, p, q, e) ==
    LET d == RunEnd(s, e + 1, Digits)
    IN  [type |-> "match",
         g1 |-> Slice(s, p, q),
         g2 |-> Slice(s, q, RunEnd(s, d, SiteChars)),
         g3 |-> Slice(s, q, e),
         g4 |-> Slice(s, e + 1, d),
         g5 |-> Slice(s, d, RunEnd(s, d, SiteChars))]

\* group 3 is greedy: the last `_` it can stop at
formulaGroups(s, p, q) ==
    formulaGroupsAround(s, p, q, MaxOf(formulaUnderscores(s, q)))

\* /(\d*)(([\w\*-]*)_(\d*)([a-z\*]+))/ tried at start p: group 1 gives back
\* digits and group 3 gives back characters, longest first, until `_`, the
\* digits and a non-empty site follow.  Group 4 is the whole digit run after
\* `_` (a shorter one leaves a digit where the site must start) and group 5
\* the whole run of site characters.
formulaRegexAt(s, p) ==
    LET ok == {q \in p..RunEnd(s, p, Digits) : formulaUnderscores(s, q) # {}}
    IN  IF ok = {} THEN NoMatch ELSE formulaGroups(s, p, MaxOf(ok))

\* the starts p, p + 1, ... tried in turn until one has a match
RECURSIVE formulaRegexFrom(_, _)
formulaRegexOr(match, s, p) ==
    IF match # NoMatch THEN match ELSE formulaRegexFrom(s, p + 1)

formulaRegexFrom(s, p) ==
    IF p > Len(s) + 1 THEN NoMatch
    ELSE formulaRegexOr(formulaRegexAt(s, p), s, p)

\* formulaRegex.exec(s): the match at the leftmost start that has one
formulaRegexExec(s) == formulaRegexFrom(s, 1)

InvalidFormula(text) == [type |-> "error", kind |-> "InvalidFormula", text |-> text]

\* a mutant of StoichOf: the digits are never read
StoichOfIgnoringDigits(g) == 1

\* match[1] ? parseInt(match[1]) : 1 -- a non-empty string is truthy
StoichOf(g) == IF g # <<>> THEN parseInt(g) ELSE 1

\* ChemFormula.prototype.split after the exec that gave match, and the
\* fields the constructor fills from it
split(formula, match) ==
    IF match # NoMatch
    THEN [type |-> "ChemFormula",
          formula |-> formula,
          stoich |-> StoichOf(match.g1),
          species_site |-> match.g2,
          species |-> match.g3,
          site |-> match.g5,
          nsite |-> StoichOf(match.g4)]
    ELSE InvalidFormula(formula)

\* new ChemFormula(formula): the object, or the error split() throws
ChemFormula(formula) == split(formula, formulaRegexExec(formula))

IsError(v) == v.type = "error"

\* species.match(/([a-zA-Z\*])(\d*)/g) followed by spRegex.exec on each piece:
\* one [element, digits] pair per letter or `*` of the species, left to right
\* (a fresh regex object per read of the getter, so every exec starts at 0)
spMatches(species) ==
    LET at == {i \in 1..Len(species) : species[i] \in ElemChars}
        RECURSIVE walk(_)
        walk(rest) ==
            IF rest = {} THEN <<>>
            ELSE LET i == MinOf(rest)
                 IN  <<[element |-> <<species[i]>>,
                        digits |-> Slice(species, i + 1,
                                         RunEnd(species, i + 1, Digits))]>>
                     \o walk(rest \ {i})
    IN  walk(at)

\* the loop of lines 426-437: element_number[element] (+)= number
RECURSIVE countElements(_, _)
countElements(matches, element_number) ==
    IF matches = <<>> THEN element_number
    ELSE countElements(Tail(matches),
                       MapAdd(element_number, Head(matches).element,
                              StoichOf(Head(matches).digits)))

\* a mutant of timesStoich: the loop is left out
timesStoichSkipped(m, stoich) == m

\* the loop of lines 440-442: every count times stoich
timesStoich(m, stoich) ==
    [m EXCEPT !.val = [k \in KeySet(m) |-> m.val[k] * stoich]]

\* a mutant of getElementNumber: the empty site `*` is counted as an element
getElementNumberCountingSites(f, g) ==
    LET m == countElements(spMatches(f.species), EmptyMap)
    IN  IF m.keys = <<>> THEN [ret |-> TypeError, elem |-> g]
        ELSE [ret |-> timesStoich(m, f.stoich),
              elem |-> [type |-> "string", s |-> m.keys[Len(m.keys)]]]

\* ChemFormula.prototype.getElementNumber, called with the global `elem`
\* holding g: what it returns (or the TypeError of null.length when the
\* species holds no letter and no `*`) and what it leaves in `elem`, the
\* undeclared variable of its last loop
getElementNumber(f, g) ==
    IF f.species = <<"*">> THEN [ret |-> EmptyMap, elem |-> g]
    ELSE LET matches == spMatches(f.species)
         IN  IF matches = <<>> THEN [ret |-> TypeError, elem |-> g]
             ELSE LET m == countElements(matches, EmptyMap)
                  IN  [ret |-> timesStoich(m, f.stoich),
                       elem |-> [type |-> "string", s |-> m.keys[Len(m.keys)]]]

\* a mutant of getSiteNumber: the stoichiometric number is left out
getSiteNumberPerFormula(f) ==
    IF f.site # <<"l">> /\ f.site # <<"g">>
    THEN MapSet(EmptyMap, f.site, f.nsite)
    ELSE EmptyMap

\* a mutant of getSiteNumber: gas and liquid are counted like any site
getSiteNumberAnySite(f) == MapSet(EmptyMap, f.site, f.stoich * f.nsite)

\* ChemFormula.prototype.getSiteNumber
getSiteNumber(f) ==
    IF f.site # <<"l">> /\ f.site # <<"g">>
    THEN MapSet(EmptyMap, f.site, f.stoich * f.nsite)
    ELSE EmptyMap

\* a mutant of type: the `*` is looked for first
typeStarFirst(f) ==
    IF \E i \in 1..Len(f.species_site) : f.species_site[i] = "*" THEN "site"
    ELSE IF f.site = <<"g">> THEN "gas"
    ELSE IF f.site = <<"l">> THEN "liquid"
    ELSE "adsorbate"

\* ChemFormula.prototype.type
type(f) ==
    IF f.site = <<"g">> THEN "gas"
    ELSE IF f.site = <<"l">> THEN "liquid"
    ELSE IF \E i \in 1..Len(f.species_site) : f.species_site[i] = "*" THEN "site"
    ELSE "adsorbate"

\* a mutant of isEquivalent: only the numbers of keys are compared
isEquivalentSameSize(objA, objB, g) ==
    [ret |-> Len(objA.keys) = Len(objB.keys), prop |-> g]

\* isEquivalent(objA, objB), called with the global `prop` holding g: the
\* verdict, and the key its for-in loop assigned last to `prop`.  A key that
\* objB only inherits (prop in objB) holds a function there, which no count
\* equals, so such a key ends the loop with false like a missing one.
isEquivalent(objA, objB, g) ==
    IF Len(objA.keys) # Len(objB.keys) THEN [ret |-> FALSE, prop |-> g]
    ELSE LET bad == {i \in 1..Len(objA.keys) :
                        \/ ~MapHas(objB, objA.keys[i])
                        \/ objA.val[objA.keys[i]] # objB.val[objA.keys[i]]
                        \/ objA.text[objA.keys[i]] # objB.text[objA.keys[i]]}
         IN  IF bad # {}
             THEN [ret |-> FALSE,
                   prop |-> [type |-> "string", s |-> objA.keys[MinOf(bad)]]]
             ELSE [ret |-> TRUE,
                   prop |-> IF objA.keys = <<>> THEN g
                            ELSE [type |-> "string",
                                  s |-> objA.keys[Len(objA.keys)]]]

NotConserved(kind, of, left, right) ==
    [type |-> "error", kind |-> kind, of |-> of, left |-> left, right |-> right]

\* the end of ChemFormula.prototype.conserve: site is the verdict on the
\* two site counts
formulaConserveSite(this, another, ge, site) ==
    IF ~site.ret
    THEN [ret |-> NotConserved("Site", "formula", this.formula, another.formula),
          elem |-> ge, prop |-> site.prop]
    ELSE [ret |-> [type |-> "true"], elem |-> ge, prop |-> site.prop]

\* conserve from the mass check on: mass is the verdict on the two element
\* counts
formulaConserveMass(this, another, ge, mass) ==
    IF ~mass.ret
    THEN [ret |-> NotConserved("Mass", "formula", this.formula, another.formula),
          elem |-> ge, prop |-> mass.prop]
    ELSE formulaConserveSite(this, another, ge,
                             isEquivalent(getSiteNumber(this),
                                          getSiteNumber(another), mass.prop))

\* conserve once another.getElementNumber() has given elemNum2
formulaConserveElemNum2(this, another, elemNum1, elemNum2, gp) ==
    IF elemNum2.ret = TypeError
    THEN [ret |-> TypeError, elem |-> elemNum2.elem, prop |-> gp]
    ELSE formulaConserveMass(this, another, elemNum2.elem,
                             isEquivalent(elemNum1.ret, elemNum2.ret, gp))

\* conserve once this.getElementNumber() has given elemNum1
formulaConserveElemNum1(this, another, elemNum1, gp) ==
    IF elemNum1.ret = TypeError
    THEN [ret |-> TypeError, elem |-> elemNum1.elem, prop |-> gp]
    ELSE formulaConserveElemNum2(this, another, elemNum1,
                                 getElementNumber(another, elemNum1.elem), gp)

\* ChemFormula.prototype.conserve with another a ChemFormula, called with
\* the globals holding ge and gp: true, the Mass or the Site error, or the
\* TypeError of an element count
ChemFormulaConserve(this, another, ge, gp) ==
    formulaConserveElemNum1(this, another, getElementNumber(this, ge), gp)

(***************************************************************************)
(* ChemState                                                               *)
(***************************************************************************)
\* the loop of ChemState.prototype.toList: the formulas of the pieces, or
\* the error of the first piece ChemFormula refuses
RECURSIVE parseFormulas(_, _)
\* a mutant of pushFormula: a piece that is no formula is left out
pushFormulaIfValid(formula, formulaStrs, formulaList) ==
    IF IsError(formula) THEN parseFormulas(Tail(formulaStrs), formulaList)
    ELSE parseFormulas(Tail(formulaStrs), Append(formulaList, formula))

pushFormula(formula, formulaStrs, formulaList) ==
    IF IsError(formula) THEN formula
    ELSE parseFormulas(Tail(formulaStrs), Append(formulaList, formula))

parseFormulas(formulaStrs, formulaList) ==
    IF formulaStrs = <<>>
    THEN [type |-> "list", items |-> formulaList]
    ELSE pushFormula(ChemFormula(trim(Head(formulaStrs))), formulaStrs, formulaList)

\* ChemState.prototype.toList
ChemStateToList(chemState) == parseFormulas(splitChar(chemState, "+"), <<>>)

\* new ChemState(chemState): the object, or the error toList() throws
ChemStateOf(chemState, formulaList) ==
    IF IsError(formulaList) THEN formulaList
    ELSE [type |-> "ChemState",
          chemState |-> chemState,
          formulaList |-> formulaList.items]

ChemState(chemState) == ChemStateOf(chemState, ChemStateToList(chemState))

\* for (var k in m) { merged[k] (+)= m[k] }
RECURSIVE mergeInto(_, _, _)
mergeInto(merged, m, i) ==
    IF i > Len(m.keys) THEN merged
    ELSE mergeInto(MapAdd(merged, m.keys[i], m.val[m.keys[i]]), m, i + 1)

\* ChemState.prototype.getElementNumber from formula i on, with the global
\* `elem` holding g
RECURSIVE mergeElementNumbers(_, _, _, _)
mergeElemNum(elemNum, formulaList, i, mergedElemNum) ==
    IF elemNum.ret = TypeError THEN elemNum
    ELSE mergeElementNumbers(formulaList, i + 1,
                             mergeInto(mergedElemNum, elemNum.ret, 1),
                             elemNum.elem)

mergeElementNumbers(formulaList, i, mergedElemNum, g) ==
    IF i > Len(formulaList) THEN [ret |-> mergedElemNum, elem |-> g]
    ELSE mergeElemNum(getElementNumber(formulaList[i], g),
                      formulaList, i, mergedElemNum)

\* ChemState.prototype.getElementNumber (toList parses the text again)
ChemStateGetElementNumber(st, g) ==
    mergeElementNumbers(ChemStateToList(st.chemState).items, 1, EmptyMap, g)

RECURSIVE mergeSiteNumbers(_, _, _)
mergeSiteNumbers(formulaList, i, mergedSiteNum) ==
    IF i > Len(formulaList) THEN mergedSiteNum
    ELSE mergeSiteNumbers(formulaList, i + 1,
                          mergeInto(mergedSiteNum, getSiteNumber(formulaList[i]), 1))

\* ChemState.prototype.getSiteNumber
ChemStateGetSiteNumber(st) ==
    mergeSiteNumbers(ChemStateToList(st.chemState).items, 1, EmptyMap)

\* the end of conserve: site is the verdict on the two site counts
conserveSite(this, another, ge, site) ==
    IF ~site.ret
    THEN [ret |-> NotConserved("Site", "state", this.chemState, another.chemState),
          elem |-> ge, prop |-> site.prop]
    ELSE [ret |-> [type |-> "true"], elem |-> ge, prop |-> site.prop]

\* conserve from the mass check on: mass is the verdict on the two element
\* counts
conserveMass(this, another, ge, mass) ==
    IF ~mass.ret
    THEN [ret |-> NotConserved("Mass", "state", this.chemState, another.chemState),
          elem |-> ge, prop |-> mass.prop]
    ELSE conserveSite(this, another, ge,
                      isEquivalent(ChemStateGetSiteNumber(this),
                                   ChemStateGetSiteNumber(another), mass.prop))

\* conserve once another.getElementNumber() has given elemNum2
conserveElemNum2(this, another, elemNum1, elemNum2, gp) ==
    IF elemNum2.ret = TypeError
    THEN [ret |-> TypeError, elem |-> elemNum2.elem, prop |-> gp]
    ELSE conserveMass(this, another, elemNum2.elem,
                      isEquivalent(elemNum1.ret, elemNum2.ret, gp))

\* conserve once this.getElementNumber() has given elemNum1
conserveElemNum1(this, another, elemNum1, gp) ==
    IF elemNum1.ret = TypeError
    THEN [ret |-> TypeError, elem |-> elemNum1.elem, prop |-> gp]
    ELSE conserveElemNum2(this, another, elemNum1,
                          ChemStateGetElementNumber(another, elemNum1.elem), gp)

\* ChemState.prototype.conserve, called with the globals holding ge and gp:
\* true, the Mass or the Site error, or the TypeError of an element count
ChemStateConserve(this, another, ge, gp) ==
    conserveElemNum1(this, another, ChemStateGetElementNumber(this, ge), gp)

(***************************************************************************)
(* RxnEquation                                                             *)
(***************************************************************************)
\* where a greedy [^\<\>]* that starts at p stops
RECURSIVE RunEndNot(_, _, _)
RunEndNot(s, p, class) ==
    IF p > Len(s) \/ s[p] \in class THEN p ELSE RunEndNot(s, p + 1, class)

IsAt(s, q, c) == q <= Len(s) /\ s[q] = c

\* a mutant of arrowLen: the optional `<` is left out of the pattern
arrowLenOneWay(s, q) ==
    IF IsAt(s, q, "-") /\ IsAt(s, q + 1, ">") THEN 2 ELSE 0

\* (?:\<?\-\>) tried at q: the length it matches, 0 when it does not match
arrowLen(s, q) ==
    IF IsAt(s, q, "<") /\ IsAt(s, q + 1, "-") /\ IsAt(s, q + 2, ">") THEN 3
    ELSE IF IsAt(s, q, "-") /\ IsAt(s, q + 1, ">") THEN 2
    ELSE 0

\* ([^\<\>]*)(?:\<?\-\>) tried at a: the end of the longest group that an
\* arrow follows, 0 when there is none
beforeArrow(s, a) ==
    LET ends == {q \in a..RunEndNot(s, a, AngleChars) : arrowLen(s, q) > 0}
    IN  IF ends = {} THEN 0 ELSE MaxOf(ends)

\* the last group, from b to the next `<` or `>` or to the end of the text
lastGroup(s, b) == Slice(s, b, RunEndNot(s, b, AngleChars))

\* the groups after the first arrow, which ends before a: q2 is where the
\* second arrow starts, 0 when the optional part matches nothing
stateGroupsAfter(s, a, q2) ==
    IF q2 = 0 THEN <<lastGroup(s, a)>>
    ELSE <<Slice(s, a, q2), lastGroup(s, q2 + arrowLen(s, q2))>>

\* the match whose first group runs from p to q1, 0 when no arrow follows
stateGroups(s, p, q1) ==
    IF q1 = 0 THEN NoMatch
    ELSE [type |-> "match",
          groups |-> <<Slice(s, p, q1)>>
                     \o stateGroupsAfter(s, q1 + arrowLen(s, q1),
                                         beforeArrow(s, q1 + arrowLen(s, q1)))]

\* /([^\<\>]*)(?:\<?\-\>)(?:([^\<\>]*)(?:\<?\-\>))?([^\<\>]*)/ tried at
\* start p: the optional middle group is taken whenever it can match, and
\* the last group runs to the next `<` or `>` or to the end of the text
stateRegexAt(s, p) == stateGroups(s, p, beforeArrow(s, p))

\* the starts p, p + 1, ... tried in turn until one has a match
RECURSIVE stateRegexFrom(_, _)
stateRegexOr(match, s, p) ==
    IF match # NoMatch THEN match ELSE stateRegexFrom(s, p + 1)

stateRegexFrom(s, p) ==
    IF p > Len(s) + 1 THEN NoMatch
    ELSE stateRegexOr(stateRegexAt(s, p), s, p)

\* stateRegex.exec(s): the match at the leftmost start that has one; groups
\* holds the groups that are not undefined, in order
stateRegexExec(s) == stateRegexFrom(s, 1)

InvalidEquation(text) == [type |-> "error", kind |-> "InvalidEquation", text |-> text]

\* the loop of RxnEquation.prototype.toList: the states of the groups, or
\* the error of the first group ChemState refuses
RECURSIVE parseStates(_, _)
pushState(st, groups, chemStates) ==
    IF IsError(st) THEN st
    ELSE parseStates(Tail(groups), Append(chemStates, st))

parseStates(groups, chemStates) ==
    IF groups = <<>>
    THEN [type |-> "list", items |-> chemStates]
    ELSE pushState(ChemState(trim(Head(groups))), groups, chemStates)

\* RxnEquation.prototype.toList
\* a mutant of statesOf: a text without an arrow is taken as one state
statesOfAnyText(rxnEquation, match) ==
    IF match = NoMatch THEN parseStates(<<rxnEquation>>, <<>>)
    ELSE parseStates(match.groups, <<>>)

statesOf(rxnEquation, match) ==
    IF match = NoMatch THEN InvalidEquation(rxnEquation)
    ELSE parseStates(match.groups, <<>>)

RxnEquationToList(rxnEquation) ==
    statesOf(rxnEquation, stateRegexExec(rxnEquation))

\* new RxnEquation(rxnEquation): the object, or the error toList() throws
RxnEquationOf(rxnEquation, chemStates) ==
    IF IsError(chemStates) THEN chemStates
    ELSE [type |-> "RxnEquation",
          rxnEquation |-> rxnEquation,
          chemStates |-> chemStates.items]

RxnEquation(rxnEquation) ==
    RxnEquationOf(rxnEquation, RxnEquationToList(rxnEquation))

\* RxnEquation.prototype.toFormulaList
RxnEquationToFormulaList(rxnEquation) ==
    LET chemStates == RxnEquationToList(rxnEquation).items
    IN  [i \in 1..Len(chemStates) |-> ChemStateToList(chemStates[i].chemState).items]

\* the loop of checkConservation from state i on: first.conserve(chemStates[i])
RECURSIVE conserveWithFirst(_, _, _, _)
conservedWithFirst(c, chemStates, i) ==
    IF c.ret.type # "true" THEN c
    ELSE conserveWithFirst(chemStates, i + 1, c.elem, c.prop)

conserveWithFirst(chemStates, i, ge, gp) ==
    IF i > Len(chemStates)
    THEN [ret |-> [type |-> "true"], elem |-> ge, prop |-> gp]
    ELSE conservedWithFirst(ChemStateConserve(chemStates[1], chemStates[i], ge, gp),
                            chemStates, i)

\* a mutant of checkConservation: each state is compared with the one
\* before it
RECURSIVE conserveWithPrevious(_, _, _, _)
conservedWithPrevious(c, chemStates, i) ==
    IF c.ret.type # "true" THEN c
    ELSE conserveWithPrevious(chemStates, i + 1, c.elem, c.prop)

conserveWithPrevious(chemStates, i, ge, gp) ==
    IF i > Len(chemStates)
    THEN [ret |-> [type |-> "true"], elem |-> ge, prop |-> gp]
    ELSE conservedWithPrevious(
             ChemStateConserve(chemStates[i - 1], chemStates[i], ge, gp),
             chemStates, i)

checkConservationPairwise(eq, ge, gp) ==
    conserveWithPrevious(RxnEquationToList(eq.rxnEquation).items, 2, ge, gp)

\* a mutant of checkConservation: the loop stops after the second state
checkConservationOnce(eq, ge, gp) ==
    ChemStateConserve(RxnEquationToList(eq.rxnEquation).items[1],
                      RxnEquationToList(eq.rxnEquation).items[2], ge, gp)

\* RxnEquation.prototype.checkConservation (toList parses the text again)
checkConservation(eq, ge, gp) ==
    conserveWithFirst(RxnEquationToList(eq.rxnEquation).items, 2, ge, gp)

(***************************************************************************)
(* The texts the operations are applied to.                                *)
(***************************************************************************)
\* the longest token made of every combination of TokenChars
MaxTokenLen == 4

\* the most arrows of an equation made of SplitPieces
MaxArrows == 3

TokenChars == {"0", "2", "H", "*", "-", "_", "s", "g", "!"}

NamedTokens ==
    {<<"2", "H", "2", "O", "_", "s">>,
     <<"2", "H", "2", "O", "_", "3", "s">>,
     <<"H", "4", "O", "2", "_", "6", "s">>,
     <<"C", "O", "2", "_", "s">>,
     <<"C", "O", "-", "O", "_", "s">>,
     <<"2", "H", "2", "H", "_", "s">>,
     <<"H", "2", "O", "_", "l">>,
     <<"C", "O", "_", "g">>,
     <<"1", "2", "H", "_", "s">>,
     <<"2", "H", "_", "2", "s">>,
     <<"H", "2", "_", "0", "s">>,
     <<" ", "C", "O", "_", "s">>,
     <<"C", "O", "_", "s", "!">>,
     <<"h", "2", "o", "_", "s", "g">>,
     <<"*", "_", "l">>,
     <<"H", "*", "_", "l">>,
     <<"2", "H", "_", "3", "g">>,
     <<"2", "H", "_", "c", "o", "n", "s", "t", "r", "u", "c", "t", "o", "r">>}

\* the formulas a formula is compared with
OtherFormulas ==
    {<<"H", "2", "_", "s">>,
     <<"H", "2", "_", "2", "s">>,
     <<"H", "H", "_", "2", "g">>,
     <<"0", "_", "s">>,
     <<"*", "_", "s">>,
     <<"H", "_", "s">>}

Tokens == UNION {[1..n -> TokenChars] : n \in 0..MaxTokenLen} \cup NamedTokens

StateCOsOs == <<"C", "O", "_", "s", " ", "+", " ", "O", "_", "s">>

StateCOgOs == <<"C", "O", "_", "g", " ", "+", " ", "O", "_", "s">>

StateCOOs1 == <<"C", "O", "-", "O", "_", "s", " ", "+", " ", "*", "_", "s">>

StateCOOs2 == <<"C", "O", "-", "O", "_", "s", " ", "+", " ", "2", "*", "_", "s">>

StateCO2g == <<"C", "O", "2", "_", "g", " ", "+", " ", "2", "*", "_", "s">>

StateCOsO2s == <<"C", "O", "_", "s", " ", "+", " ", "O", "2", "_", "s">>

StateDash == <<"C", "O", "_", "s", " ", "+", " ", "-", "O", "_", "s", " ", "+", " ", "-", "_", "s">>

ChemPieces == {StateCOsOs, StateCOgOs, StateCOOs1, StateCOOs2, StateCO2g, StateCOsO2s, StateDash}

SplitPieces ==
    {<<"A", "_", "s", " ">>,
     <<" ", " ", "B", "_", "g", " ", "+", " ", "2", "A", "_", "s", "-">>,
     <<>>}

\* the arrows between SplitPieces, and those between ChemPieces
Arrows == {<<"-", ">">>, <<"<", "-", ">">>}

SpacedArrows == {<<" ", "-", ">", " ">>, <<" ", "<", "-", ">", " ">>}

\* pieces[1] arrows[1] pieces[2] ... arrows[n] pieces[n + 1]
RECURSIVE joinStates(_, _)
joinStates(pieces, arrows) ==
    IF arrows = <<>> THEN pieces[1]
    ELSE pieces[1] \o arrows[1] \o joinStates(Tail(pieces), Tail(arrows))

EquationsOf(pieces, arrows, ns) ==
    {joinStates(pa[1], pa[2]) : pa \in
        UNION {[1..(n + 1) -> pieces] \X [1..n -> arrows] : n \in ns}}

\* equations with a `<` or `>` that belongs to no arrow
StrayEquations ==
    {<<"A", "_", "s", " ", ">", " ", "B", "_", "s", " ", "-", ">", " ", "C", "_", "s">>,
     <<"A", "_", "s", " ", "<", "-", " ", "B", "_", "s", " ", "-", ">", " ", "C", "_", "s">>,
     <<"A", "_", "s", " ", "-", ">", " ", "B", "_", "s", " ", ">", " ", "C", "_", "s">>}

\* 'A_s <- B_s': the parts of an arrow, but no arrow
EquationNoArrow == <<"A", "_", "s", " ", "<", "-", " ", "B", "_", "s">>

\* texts without any arrow
NoArrowEquations ==
    {EquationNoArrow,
     <<"A", "_", "s", " ", ">", " ", "B", "_", "s">>,
     <<"A", "_", "s", " ", "-", " ", "B", "_", "s">>,
     <<"A", "_", "s", " ", "+", " ", "B", "_", "s">>}

\* 'C_constructor+2O_constructor -> 2O_constructor+C_constructor -> CO2_3constructor'
EquationConstructor ==
    <<"C", "_", "c", "o", "n", "s", "t", "r", "u", "c", "t", "o", "r", "+", "2", "O", "_", "c", "o", "n", "s", "t", "r", "u", "c", "t", "o", "r", " ", "-", ">", " ", "2", "O", "_", "c", "o", "n", "s", "t", "r", "u", "c", "t", "o", "r", "+", "C", "_", "c", "o", "n", "s", "t", "r", "u", "c", "t", "o", "r", " ", "-", ">", " ", "C", "O", "2", "_", "3", "c", "o", "n", "s", "t", "r", "u", "c", "t", "o", "r">>

Equations ==
    EquationsOf(ChemPieces, SpacedArrows, 1..2)
        \cup EquationsOf(SplitPieces, Arrows, 0..MaxArrows)
        \cup StrayEquations \cup NoArrowEquations \cup {EquationConstructor}

\* the most formulas of a state made of FormulaPieces
MaxFormulas == 3

FormulaPieces ==
    {<<"C", "O", "_", "s">>,
     <<" ", "H", "O", "_", "2", "t">>,
     <<"N", "O", "_", "g", " ">>,
     <<>>,
     <<"C", "_", "c", "o", "n", "s", "t", "r", "u", "c", "t", "o", "r">>,
     <<"2", "O", "_", "c", "o", "n", "s", "t", "r", "u", "c", "t", "o", "r">>,
     <<"-", "_", "s">>,
     <<"O", "_", "l">>}

\* 'CO_s + HO_2t + NO_g'
StateTest == <<"C", "O", "_", "s", " ", "+", " ", "H", "O", "_", "2", "t", " ", "+", " ", "N", "O", "_", "g">>

\* 'CO_s + XY + ': two pieces that are no formulas
StateTwoInvalid == <<"C", "O", "_", "s", " ", "+", " ", "X", "Y", " ", "+", " ">>

NamedStates ==
    {StateTest, StateTwoInvalid, <<" ">>,
     <<"X", "_", " ", "+", " ", "C", "O", "_", "s", " ", "+", " ", "Y">>}

\* the texts of states: FormulaPieces joined by `+`, the states of the
\* equations and the named ones
StateTexts ==
    EquationsOf(FormulaPieces, {<<"+">>}, 0..(MaxFormulas - 1))
        \cup ChemPieces \cup NamedStates

\* the states a state is compared with
OtherStates ==
    {<<"O", "_", "s", " ", "+", " ", "C", "O", "_", "s">>,
     <<"2", "O", "_", "c", "o", "n", "s", "t", "r", "u", "c", "t", "o", "r", "+", "C", "_", "c", "o", "n", "s", "t", "r", "u", "c", "t", "o", "r">>,
     <<"C", "O", "_", "g">>,
     <<"-", "_", "s">>,
     <<"N", "O", "_", "g", " ", "+", " ", "C", "O", "_", "s", " ", "+", " ", "H", "O", "_", "2", "t">>,
     <<"C", "O", "2", "_", "2", "s">>}

(***************************************************************************)
(* The program: one text is parsed by a constructor, then the methods of   *)
(* the object it built are called, in any order and any number of times.   *)
(***************************************************************************)
InitFormula ==
    /\ input \in {[kind |-> "formula", text |-> x] : x \in Tokens}
    /\ pc = "start"
    /\ obj = NoObj
    /\ out = [op |-> "none"]
    /\ elem = Undefined
    /\ prop = Undefined

InitEquation ==
    /\ input \in {[kind |-> "equation", text |-> x] : x \in Equations}
    /\ pc = "start"
    /\ obj = NoObj
    /\ out = [op |-> "none"]
    /\ elem = Undefined
    /\ prop = Undefined

InitState ==
    /\ input \in {[kind |-> "state", text |-> x] : x \in StateTexts}
    /\ pc = "start"
    /\ obj = NoObj
    /\ out = [op |-> "none"]
    /\ elem = Undefined
    /\ prop = Undefined

\* var f = new ChemFormula(text)
NewChemFormula ==
    /\ pc = "start"
    /\ input.kind = "formula"
    /\ LET f == ChemFormula(input.text)
       IN  IF IsError(f)
           THEN /\ pc' = "failed"
                /\ out' = [op |-> "new ChemFormula", ret |-> f]
                /\ obj' = obj
           ELSE /\ pc' = "built"
                /\ out' = [op |-> "new ChemFormula", ret |-> [type |-> "object"]]
                /\ obj' = f
    /\ UNCHANGED <<input, elem, prop>>

\* f.getElementNumber()
FormulaGetElementNumber ==
    /\ pc \in {"built", "called"}
    /\ obj.type = "ChemFormula"
    /\ LET r == getElementNumber(obj, elem)
       IN  /\ out' = [op |-> "getElementNumber", ret |-> r.ret]
           /\ elem' = r.elem
    /\ pc' = "called"
    /\ UNCHANGED <<input, obj, prop>>

\* f.getSiteNumber()
FormulaGetSiteNumber ==
    /\ pc \in {"built", "called"}
    /\ obj.type = "ChemFormula"
    /\ out' = [op |-> "getSiteNumber", ret |-> getSiteNumber(obj)]
    /\ pc' = "called"
    /\ UNCHANGED <<input, obj, elem, prop>>

\* f.type()
FormulaType ==
    /\ pc \in {"built", "called"}
    /\ obj.type = "ChemFormula"
    /\ out' = [op |-> "type", ret |-> type(obj)]
    /\ pc' = "called"
    /\ UNCHANGED <<input, obj, elem, prop>>

\* f.conserve(new ChemFormula(t))
FormulaConserve ==
    /\ pc \in {"built", "called"}
    /\ obj.type = "ChemFormula"
    /\ \E t \in OtherFormulas :
          LET c == ChemFormulaConserve(obj, ChemFormula(t), elem, prop)
          IN  /\ out' = [op |-> "conserve", arg |-> t, ret |-> c.ret]
              /\ elem' = c.elem
              /\ prop' = c.prop
    /\ pc' = "called"
    /\ UNCHANGED <<input, obj>>

\* var st = new ChemState(text)
NewChemState ==
    /\ pc = "start"
    /\ input.kind = "state"
    /\ LET st == ChemState(input.text)
       IN  IF IsError(st)
           THEN /\ pc' = "failed"
                /\ out' = [op |-> "new ChemState", ret |-> st]
                /\ obj' = obj
           ELSE /\ pc' = "built"
                /\ out' = [op |-> "new ChemState", ret |-> [type |-> "object"]]
                /\ obj' = st
    /\ UNCHANGED <<input, elem, prop>>

\* st.toList()
StateToList ==
    /\ pc \in {"built", "called"}
    /\ obj.type = "ChemState"
    /\ out' = [op |-> "toList", ret |-> ChemStateToList(obj.chemState)]
    /\ pc' = "called"
    /\ UNCHANGED <<input, obj, elem, prop>>

\* st.getElementNumber()
StateGetElementNumber ==
    /\ pc \in {"built", "called"}
    /\ obj.type = "ChemState"
    /\ LET r == ChemStateGetElementNumber(obj, elem)
       IN  /\ out' = [op |-> "getElementNumber", ret |-> r.ret]
           /\ elem' = r.elem
    /\ pc' = "called"
    /\ UNCHANGED <<input, obj, prop>>

\* st.getSiteNumber()
StateGetSiteNumber ==
    /\ pc \in {"built", "called"}
    /\ obj.type = "ChemState"
    /\ out' = [op |-> "getSiteNumber", ret |-> ChemStateGetSiteNumber(obj)]
    /\ pc' = "called"
    /\ UNCHANGED <<input, obj, elem, prop>>

\* st.conserve(new ChemState(t))
StateConserve ==
    /\ pc \in {"built", "called"}
    /\ obj.type = "ChemState"
    /\ \E t \in OtherStates :
          LET c == ChemStateConserve(obj, ChemState(t), elem, prop)
          IN  /\ out' = [op |-> "conserve", arg |-> t, ret |-> c.ret]
              /\ elem' = c.elem
              /\ prop' = c.prop
    /\ pc' = "called"
    /\ UNCHANGED <<input, obj>>

\* var r = new RxnEquation(text)
NewRxnEquation ==
    /\ pc = "start"
    /\ input.kind = "equation"
    /\ LET r == RxnEquation(input.text)
       IN  IF IsError(r)
           THEN /\ pc' = "failed"
                /\ out' = [op |-> "new RxnEquation", ret |-> r]
                /\ obj' = obj
           ELSE /\ pc' = "built"
                /\ out' = [op |-> "new RxnEquation", ret |-> [type |-> "object"]]
                /\ obj' = r
    /\ UNCHANGED <<input, elem, prop>>

\* r.toList()
EquationToList ==
    /\ pc \in {"built", "called"}
    /\ obj.type = "RxnEquation"
    /\ out' = [op |-> "toList", ret |-> RxnEquationToList(obj.rxnEquation)]
    /\ pc' = "called"
    /\ UNCHANGED <<input, obj, elem, prop>>

\* r.checkConservation()
CheckConservation ==
    /\ pc \in {"built", "called"}
    /\ obj.type = "RxnEquation"
    /\ LET c == checkConservation(obj, elem, prop)
       IN  /\ out' = [op |-> "checkConservation", ret |-> c.ret]
           /\ elem' = c.elem
           /\ prop' = c.prop
    /\ pc' = "called"
    /\ UNCHANGED <<input, obj>>

NextFormula ==
    \/ NewChemFormula
    \/ FormulaGetElementNumber
    \/ FormulaGetSiteNumber
    \/ FormulaType
    \/ FormulaConserve

NextState ==
    \/ NewChemState
    \/ StateToList
    \/ StateGetElementNumber
    \/ StateGetSiteNumber
    \/ StateConserve

NextEquation == NewRxnEquation \/ EquationToList \/ CheckConservation

SpecFormula == InitFormula /\ [][NextFormula]_vars

\* formulas and states
SpecState == (InitFormula \/ InitState) /\ [][NextFormula \/ NextState]_vars

SpecEquation == InitEquation /\ [][NextEquation]_vars

(***************************************************************************)
(* Properties of ChemFormula, checked under SpecFormula.                   *)
(***************************************************************************)
Built == pc \in {"built", "called"}

\* the characters of a species name: [A-Za-z0-9*-]
NameChars == Digits \cup Lower \cup Upper \cup {"*", "-"}

AllIn(s, from, to, class) == \A i \in from..(to - 1) : s[i] \in class

\* the formula grammar applied to the whole token: digits, species
\* characters, `_`, digits, one or more site characters, and nothing else
WholeGrammar(tok) ==
    \E q \in 1..(Len(tok) + 1), e \in 1..Len(tok), d \in 1..Len(tok) :
        /\ q <= e /\ e < d
        /\ AllIn(tok, 1, q, Digits)
        /\ AllIn(tok, q, e, SpeciesChars)
        /\ tok[e] = "_"
        /\ AllIn(tok, e + 1, d, Digits)
        /\ AllIn(tok, d, Len(tok) + 1, SiteChars)

\* C6: a token that does not match the formula grammar as a whole never
\* yields a formula: its construction fails with InvalidFormula.
C6_AllOrNothing ==
    (pc # "start" /\ ~WholeGrammar(input.text)) =>
        /\ pc = "failed"
        /\ out.ret = InvalidFormula(input.text)

\* C7: every formula built has stoich >= 1 and nsite >= 1.
C7_PositiveCounts ==
    Built => obj.stoich >= 1 /\ obj.nsite >= 1

\* C8: every formula built has a non-empty species and a non-empty site of
\* lowercase letters or `*`.
C8_NonEmptySpecies ==
    Built =>
        /\ obj.species # <<>>
        /\ obj.site # <<>>
        /\ AllIn(obj.site, 1, Len(obj.site) + 1, SiteChars)

\* the integer a digit string writes, 1 for the empty one
NumberOr1(ds) == IF ds = <<>> THEN 1 ELSE parseInt(ds)

\* every way to read tok as N<species>_M<site>: N and M digit strings,
\* species one or more of [A-Za-z0-9*-], site one or more of [a-z*]
Readings(tok) ==
    {[N |-> Slice(tok, 1, q), species |-> Slice(tok, q, e),
      M |-> Slice(tok, e + 1, d), site |-> Slice(tok, d, Len(tok) + 1)] :
        <<q, e, d>> \in
            {x \in (1..Len(tok)) \X (1..Len(tok)) \X (1..Len(tok)) :
                /\ x[1] < x[2] /\ x[2] < x[3]
                /\ AllIn(tok, 1, x[1], Digits)
                /\ AllIn(tok, x[1], x[2], NameChars)
                /\ tok[x[2]] = "_"
                /\ AllIn(tok, x[2] + 1, x[3], Digits)
                /\ AllIn(tok, x[3], Len(tok) + 1, SiteChars)}}

ParsedAs(rd) ==
    /\ Built
    /\ obj.stoich = NumberOr1(rd.N)
    /\ obj.nsite = NumberOr1(rd.M)
    /\ obj.species = rd.species
    /\ obj.site = rd.site

\* C9, as claimed: a token read as N<species>_M<site> parses to exactly
\* that reading, also when the species begins with a digit.
C9_RoundTripAnySpecies ==
    pc # "start" => \A rd \in Readings(input.text) : ParsedAs(rd)

\* C9, amended: a token read as N<species>_M<site> whose species does not
\* begin with a digit parses to stoich N (1 if absent), nsite M (1 if
\* absent), that species and that site.
C9_RoundTrip ==
    pc # "start" =>
        \A rd \in Readings(input.text) :
            rd.species[1] \notin Digits => ParsedAs(rd)

\* C9 witness: 2H2O_3s parsed to stoich 2, species H2O, nsite 3, site s.
C9_Witness ==
    /\ Built
    /\ input.text = <<"2", "H", "2", "O", "_", "3", "s">>
    /\ obj.stoich = 2
    /\ obj.species = <<"H", "2", "O">>
    /\ obj.nsite = 3
    /\ obj.site = <<"s">>

\* the digits that follow position i of the species, as a count
TrailingOr1(species, i) ==
    NumberOr1(Slice(species, i + 1, RunEnd(species, i + 1, Digits)))

\* the sum of TrailingOr1 over the occurrences of c at i, i + 1, ...
RECURSIVE OccurrenceSum(_, _, _)
OccurrenceSum(species, c, i) ==
    IF i > Len(species) THEN 0
    ELSE (IF species[i] = c THEN TrailingOr1(species, i) ELSE 0)
         + OccurrenceSum(species, c, i + 1)

Symbols(species) == {species[i] : i \in 1..Len(species)} \cap ElemChars

\* C10: getElementNumber returns, for each letter or `*` of the species,
\* stoich times the sum over its occurrences of the digits that follow it
\* (1 when none follow), and no other key; for the species `*` it returns
\* the empty mapping.
C10_ElementCounts ==
    (input.kind = "formula" /\ out.op = "getElementNumber") =>
        IF obj.species = <<"*">> THEN out.ret = EmptyMap
        ELSE /\ \A c \in Symbols(obj.species) :
                    /\ IsMap(out.ret)
                    /\ MapHas(out.ret, <<c>>)
                    /\ out.ret.val[<<c>>]
                          = obj.stoich * OccurrenceSum(obj.species, c, 1)
             /\ IsMap(out.ret) =>
                    KeySet(out.ret) = {<<c>> : c \in Symbols(obj.species)}

\* C10 witness: 2H2H_s, stoich 2 and species H2H, counted as H 2 * (2 + 1).
C10_Witness ==
    /\ out.op = "getElementNumber"
    /\ input.text = <<"2", "H", "2", "H", "_", "s">>
    /\ obj.stoich = 2
    /\ out.ret.val[<<"H">>] = 6

(***************************************************************************)
(* Properties of RxnEquation, checked under SpecEquation.                  *)
(***************************************************************************)
\* where the `-` of each `->` of the text is
ArrowTips(s) == {i \in 1..(Len(s) - 1) : s[i] = "-" /\ s[i + 1] = ">"}

\* where the arrow whose `-` is at i starts: at its `<` if it has one
ArrowStart(s, i) == IF i > 1 /\ s[i - 1] = "<" THEN i - 1 ELSE i

NumArrows(s) == Cardinality(ArrowTips(s))

\* every `<` and `>` of the text is part of an arrow
OnlyArrowAngles(s) ==
    \A k \in 1..Len(s) :
        s[k] \in AngleChars =>
            \E i \in ArrowTips(s) : k = i + 1 \/ (k = i - 1 /\ s[k] = "<")

\* the text cut at its arrows: the substring before the first arrow, those
\* between two arrows and the one after the last, each trimmed
RECURSIVE CutAtArrows(_, _, _)
CutAtArrows(s, from, tips) ==
    IF tips = {} THEN <<trim(Slice(s, from, Len(s) + 1))>>
    ELSE LET i == MinOf(tips)
         IN  <<trim(Slice(s, from, ArrowStart(s, i)))>>
             \o CutAtArrows(s, i + 2, tips \ {i})

Substrings(s) == CutAtArrows(s, 1, ArrowTips(s))

TextsOf(chemStates) == [i \in 1..Len(chemStates) |-> chemStates[i].chemState]

\* C2: a text with one or two arrows (and no other `<` or `>`) whose
\* trimmed substrings are states gives exactly those 2 or 3 states, in
\* order, whichever arrows are written, from the constructor and from
\* every toList(); if a substring is no state, no equation is built.
C2_SplitAtArrows ==
    (pc # "start" /\ NumArrows(input.text) \in {1, 2}
        /\ OnlyArrowAngles(input.text)) =>
        LET subs == Substrings(input.text)
        IN  IF \A k \in 1..Len(subs) : ~IsError(ChemState(subs[k]))
            THEN /\ Built
                 /\ Len(obj.chemStates) = NumArrows(input.text) + 1
                 /\ TextsOf(obj.chemStates) = subs
                 /\ out.op = "toList" =>
                        /\ out.ret.type = "list"
                        /\ TextsOf(out.ret.items) = subs
            ELSE pc = "failed"

\* C2 witness: toList() on a text with `->` then `<->` returned the three
\* trimmed substrings, the middle one written with blanks around it.
C2_Witness ==
    /\ out.op = "toList"
    /\ NumArrows(input.text) = 2
    /\ input.text = <<"A", "_", "s", " ", "-", ">", " ", " ", "B", "_", "g", " ", "+", " ", "2", "A", "_", "s", "-", "<", "-", ">", "A", "_", "s", " ">>
    /\ TextsOf(out.ret.items)
          = <<<<"A", "_", "s">>, <<"B", "_", "g", " ", "+", " ", "2", "A", "_", "s", "-">>, <<"A", "_", "s">>>>

\* C3: a text with three or more arrows is rejected: no equation is ever
\* built from it by dropping the text after its second or third arrow.
C3_ManyArrowsRejected ==
    (pc # "start" /\ NumArrows(input.text) >= 3) => ~Built

\* the aggregated element map and site map of a state
ElementMap(st) == ChemStateGetElementNumber(st, Undefined).ret

SiteMap(st) == ChemStateGetSiteNumber(st)

\* two mappings with the same keys and the same values
SameMap(a, b) == IsMap(a) /\ IsMap(b) /\ a.val = b.val /\ a.text = b.text

\* state i has the element map and the site map of state 1
LikeFirst(chemStates, i) ==
    /\ SameMap(ElementMap(chemStates[1]), ElementMap(chemStates[i]))
    /\ SameMap(SiteMap(chemStates[1]), SiteMap(chemStates[i]))

Diverging(chemStates) == {i \in 2..Len(chemStates) : ~LikeFirst(chemStates, i)}

\* C1: checkConservation() returns true exactly when every later state has
\* the element map and the site map of the first state; otherwise it fails
\* with the error of comparing the first state with the lowest-index state
\* that differs from it, a Mass or Site error naming the texts of those two
\* states (the TypeError of an element map that cannot be computed, when
\* one of the two has none).
C1_FirstDivergingState ==
    (input.kind = "equation" /\ out.op = "checkConservation") =>
        LET div == Diverging(obj.chemStates)
        IN  IF div = {} THEN out.ret.type = "true"
            ELSE LET i == MinOf(div)
                 IN  IF ElementMap(obj.chemStates[1]) = TypeError
                        \/ ElementMap(obj.chemStates[i]) = TypeError
                     THEN out.ret = TypeError
                     ELSE /\ out.ret.type = "error"
                          /\ out.ret.kind \in {"Mass", "Site"}
                          /\ out.ret.left = obj.chemStates[1].chemState
                          /\ out.ret.right = obj.chemStates[i].chemState

\* C1 witness: the second and the third state both differ from the first,
\* in different ways, and the error names the first and the second.
C1_Witness ==
    /\ out.op = "checkConservation"
    /\ Len(obj.chemStates) = 3
    /\ Diverging(obj.chemStates) = {2, 3}
    /\ SameMap(ElementMap(obj.chemStates[1]), ElementMap(obj.chemStates[2]))
    /\ IsMap(ElementMap(obj.chemStates[3]))
    /\ ~SameMap(ElementMap(obj.chemStates[1]), ElementMap(obj.chemStates[3]))
    /\ out.ret.type = "error"
    /\ out.ret.left = obj.chemStates[1].chemState
    /\ out.ret.right = obj.chemStates[2].chemState

\* CO_g + O_s <-> CO-O_s + *_s -> CO2_g + 2*_s
EquationC4 ==
    joinStates(<<StateCOgOs, StateCOOs1, StateCO2g>>,
               <<<<" ", "<", "-", ">", " ">>, <<" ", "-", ">", " ">>>>)

\* CO_s + O_s <-> CO-O_s + 2*_s -> CO2_g + 2*_s
EquationReadme ==
    joinStates(<<StateCOsOs, StateCOOs2, StateCO2g>>,
               <<<<" ", "<", "-", ">", " ">>, <<" ", "-", ">", " ">>>>)

\* CO_s + O_s <-> CO-O_s + *_s -> CO2_g + 2*_s
EquationTest ==
    joinStates(<<StateCOsOs, StateCOOs1, StateCO2g>>,
               <<<<" ", "<", "-", ">", " ">>, <<" ", "-", ">", " ">>>>)

\* C4, as claimed: CO_g + O_s <-> CO-O_s + *_s -> CO2_g + 2*_s is built,
\* and checkConservation() on it fails with the Mass error.
C4_MassError ==
    (input.text = EquationC4 /\ pc # "start") =>
        /\ Built
        /\ out.op = "checkConservation" =>
              out.ret.type = "error" /\ out.ret.kind = "Mass"

\* C4, amended: CO_g + O_s <-> CO-O_s + *_s -> CO2_g + 2*_s is built, and
\* checkConservation() on it fails with the Site error of its first and
\* second state.
C4_SiteError ==
    (input.text = EquationC4 /\ pc # "start") =>
        /\ Built
        /\ out.op = "checkConservation" =>
              out.ret = NotConserved("Site", "state", StateCOgOs, StateCOOs1)

\* C4 witness: checkConservation() was called on that equation, whose
\* first two states have equal element maps.
C4_Witness ==
    /\ input.text = EquationC4
    /\ out.op = "checkConservation"
    /\ SameMap(ElementMap(obj.chemStates[1]), ElementMap(obj.chemStates[2]))

OneEntry(m, k, n) ==
    /\ IsMap(m)
    /\ m.keys = <<k>>
    /\ m.val[k] = n
    /\ m.text[k] = <<>>

Verdict(a, b, sa, sb, of, left, right) ==
    IF a = TypeError \/ b = TypeError THEN TypeError
    ELSE IF ~SameMap(a, b) THEN NotConserved("Mass", of, left, right)
    ELSE IF ~SameMap(sa, sb) THEN NotConserved("Site", of, left, right)
    ELSE [type |-> "true"]

\* C12: conserve of two formulas, and of two states, returns true exactly
\* when their element maps have the same keys and values and their site
\* maps have the same keys and values; it fails with the Mass error when
\* the element maps differ, whatever the site maps are, and with the Site
\* error when only the site maps differ; the error names the texts of the
\* two formulas, or the whole texts of the two states (where an element map
\* cannot be computed the call ends with that TypeError).
C12_MassBeforeSite ==
    /\ (input.kind = "formula" /\ out.op = "conserve") =>
            out.ret = Verdict(getElementNumber(obj, Undefined).ret,
                              getElementNumber(ChemFormula(out.arg), Undefined).ret,
                              getSiteNumber(obj),
                              getSiteNumber(ChemFormula(out.arg)),
                              "formula", input.text, out.arg)
    /\ (input.kind = "state" /\ out.op = "conserve") =>
            out.ret = Verdict(ElementMap(obj), ElementMap(ChemState(out.arg)),
                              SiteMap(obj), SiteMap(ChemState(out.arg)),
                              "state", input.text, out.arg)

\* C12 witness: two states of several formulas whose element maps differ
\* and whose site maps differ too were compared, and the Mass error came.
C12_Witness ==
    /\ input.kind = "state"
    /\ out.op = "conserve"
    /\ Len(obj.formulaList) > 1
    /\ IsMap(ElementMap(obj))
    /\ ~SameMap(SiteMap(obj), SiteMap(ChemState(out.arg)))
    /\ out.ret = NotConserved("Mass", "state", input.text, out.arg)

\* the sum over maps[i], maps[i + 1], ... of the number under k, 0 where a
\* map has no key k
RECURSIVE KeySum(_, _, _)
KeySum(maps, k, i) ==
    IF i > Len(maps) THEN 0
    ELSE (IF MapHas(maps[i], k) THEN maps[i].val[k] ELSE 0) + KeySum(maps, k, i + 1)

\* the mappings the formulas of the state return for the call op
FormulaMaps(formulaList, op) ==
    [i \in 1..Len(formulaList) |->
        IF op = "getElementNumber"
        THEN getElementNumber(formulaList[i], Undefined).ret
        ELSE getSiteNumber(formulaList[i])]

\* C13: getElementNumber() and getSiteNumber() of a state whose formulas
\* all have such a mapping return the mapping whose keys are the keys of
\* the formulas' mappings and whose value under a key is the sum of the
\* formulas' numbers under it.
C13_KeywiseSum ==
    (input.kind = "state" /\ out.op \in {"getElementNumber", "getSiteNumber"}) =>
        LET maps == FormulaMaps(obj.formulaList, out.op)
        IN  (\A i \in 1..Len(maps) : IsMap(maps[i])) =>
                /\ IsMap(out.ret)
                /\ KeySet(out.ret) = UNION {KeySet(maps[i]) : i \in 1..Len(maps)}
                /\ \A k \in KeySet(out.ret) :
                        /\ out.ret.text[k] = <<>>
                        /\ out.ret.val[k] = KeySum(maps, k, 1)

\* where the `+` of the text are
PlusAt(s) == {i \in 1..Len(s) : s[i] = "+"}

\* the text cut at its `+`: the pieces before, between and after them, each
\* trimmed, in written order
RECURSIVE CutAtPlus(_, _, _)
CutAtPlus(s, from, plus) ==
    IF plus = {} THEN <<trim(Slice(s, from, Len(s) + 1))>>
    ELSE <<trim(Slice(s, from, MinOf(plus)))>>
         \o CutAtPlus(s, MinOf(plus) + 1, plus \ {MinOf(plus)})

PiecesOf(s) == CutAtPlus(s, 1, PlusAt(s))

\* the pieces ChemFormula refuses
InvalidPieces(pieces) == {i \in 1..Len(pieces) : IsError(ChemFormula(pieces[i]))}

\* C14: a state text with k `+` whose k + 1 trimmed pieces are all
\* formulas gives a state of exactly those k + 1 formulas in written
\* order, from the constructor and from every toList(); if a piece is
\* empty or no formula, no state is built and the constructor fails with
\* the InvalidFormula error of the leftmost such piece.
C14_SplitOnPlus ==
    (input.kind = "state" /\ pc # "start") =>
        LET pieces == PiecesOf(input.text)
        IN  /\ (\E i \in 1..Len(pieces) : pieces[i] = <<>>) => pc = "failed"
            /\ IF InvalidPieces(pieces) = {}
               THEN /\ Built
                    /\ Len(obj.formulaList) = Cardinality(PlusAt(input.text)) + 1
                    /\ \A i \in 1..Len(pieces) :
                            obj.formulaList[i].formula = pieces[i]
                    /\ out.op = "toList" =>
                            /\ out.ret.type = "list"
                            /\ out.ret.items = obj.formulaList
               ELSE /\ pc = "failed"
                    /\ out.ret = InvalidFormula(pieces[MinOf(InvalidPieces(pieces))])

\* C14 witness: 'CO_s + XY + ', whose second piece and whose empty third
\* piece are no formulas, failed with the error of XY.
C14_Witness ==
    /\ input.text = StateTwoInvalid
    /\ pc = "failed"
    /\ InvalidPieces(PiecesOf(input.text)) = {2, 3}
    /\ out.ret = InvalidFormula(<<"X", "Y">>)

\* C17: no constructor and no method call changes a variable of the
\* program outside the value it returns: the global variables elem and
\* prop are as they were before the first call.
C17_GlobalsUntouched == elem = Undefined /\ prop = Undefined

\* the orders n formulas can be written in
Perms(n) == {p \in [1..n -> 1..n] : \A i, j \in 1..n : i # j => p[i] # p[j]}

\* the state of the pieces written in the order p
Reordered(pieces, p) ==
    ChemState(joinStates([i \in 1..Len(pieces) |-> pieces[p[i]]],
                         [i \in 1..(Len(pieces) - 1) |-> <<"+">>]))

\* true, Mass, Site or TypeError
Outcome(ret) == IF ret.type = "error" THEN ret.kind ELSE ret.type

\* C18: a state and the state of the same formulas written in another
\* order have the same element map and the same site map, and conserve
\* gives the same outcome for both against any third state.
C18_OrderIrrelevant ==
    (input.kind = "state" /\ Built) =>
        \A p \in Perms(Len(obj.formulaList)) :
            LET other == Reordered(PiecesOf(input.text), p)
            IN  /\ IsMap(ElementMap(obj)) =>
                        SameMap(ElementMap(obj), ElementMap(other))
                /\ SameMap(SiteMap(obj), SiteMap(other))
                /\ out.op = "conserve" =>
                        Outcome(out.ret)
                          = Outcome(ChemStateConserve(other, ChemState(out.arg),
                                                      Undefined, Undefined).ret)

(***************************************************************************)
(* Properties of ChemFormula.prototype.type, checked under SpecFormula.    *)
(***************************************************************************)
HasStar(s) == "*" \in {s[i] : i \in 1..Len(s)}

\* C15: type() returns one of gas, liquid, site and adsorbate: gas exactly
\* for the site g, liquid exactly for the site l, site exactly for another
\* site with a `*` in the species or the site, adsorbate for the rest; *_g
\* is gas and *_l is liquid.
C15_TypeOrder ==
    (input.kind = "formula" /\ out.op = "type") =>
        /\ out.ret \in {"gas", "liquid", "site", "adsorbate"}
        /\ out.ret = "gas" <=> obj.site = <<"g">>
        /\ out.ret = "liquid" <=> obj.site = <<"l">>
        /\ out.ret = "site" <=>
                (obj.site \notin {<<"g">>, <<"l">>} /\ HasStar(obj.species_site))
        /\ input.text = <<"*", "_", "g">> => out.ret = "gas"
        /\ input.text = <<"*", "_", "l">> => out.ret = "liquid"

\* C15 witness: type() of *_l, which has a `*`, returned liquid.
C15_Witness ==
    /\ input.text = <<"*", "_", "l">>
    /\ out.op = "type"
    /\ HasStar(obj.species_site)
    /\ out.ret = "liquid"

(***************************************************************************)
(* Further properties of RxnEquation, checked under SpecEquation.          *)
(***************************************************************************)
\* C16: a text that holds no `->` (with or without a `<` before it) gives
\* no equation: the constructor fails with the InvalidEquation error that
\* carries the text.
C16_NoArrowInvalid ==
    (input.kind = "equation" /\ pc # "start" /\ NumArrows(input.text) = 0) =>
        /\ pc = "failed"
        /\ out.ret = InvalidEquation(input.text)

\* C16 witness: 'A_s <- B_s', two formulas around `<-`, failed with the
\* InvalidEquation error of that text.
C16_Witness ==
    /\ input.text = EquationNoArrow
    /\ NumArrows(input.text) = 0
    /\ pc = "failed"
    /\ out.ret = InvalidEquation(EquationNoArrow)

\* conserve of state i with state i + 1 returns true
PairConserves(chemStates, i) ==
    ChemStateConserve(chemStates[i], chemStates[i + 1],
                      Undefined, Undefined).ret.type = "true"

\* C19: on an equation of three states checkConservation() returns true
\* exactly when the first state conserves with the second and the second
\* with the third.
C19_AdjacentPairs ==
    (input.kind = "equation" /\ out.op = "checkConservation"
        /\ Len(obj.chemStates) = 3) =>
        (out.ret.type = "true"
            <=> (PairConserves(obj.chemStates, 1) /\ PairConserves(obj.chemStates, 2)))

\* C19 witness: checkConservation() returned true on the equation of the
\* test, three different states of which each conserves with the next.
C19_Witness ==
    /\ input.text = EquationTest
    /\ out.op = "checkConservation"
    /\ out.ret.type = "true"
    /\ Len(obj.chemStates) = 3
    /\ PairConserves(obj.chemStates, 1)
    /\ PairConserves(obj.chemStates, 2)

\* a state text of the grammar: formulas of the grammar joined by `+`
GrammaticalState(t) ==
    \A i \in 1..Len(PiecesOf(t)) : WholeGrammar(PiecesOf(t)[i])

\* an equation text of the grammar: two or three states of the grammar
\* with an arrow between each two
GrammaticalEquation(s) ==
    /\ NumArrows(s) \in {1, 2}
    /\ OnlyArrowAngles(s)
    /\ \A k \in 1..Len(Substrings(s)) : GrammaticalState(Substrings(s)[k])

\* C20: an equation text with a grammar error fails in the constructor
\* with InvalidFormula or InvalidEquation and leaves no object; a text of
\* the grammar is built whether or not its states conserve; a Mass or Site
\* error comes from checkConservation() only, and every call of it on the
\* same equation ends the same way.
C20_GrammarAtConstruction ==
    (input.kind = "equation" /\ pc # "start") =>
        /\ ~GrammaticalEquation(input.text) =>
                /\ pc = "failed"
                /\ obj = NoObj
                /\ out.ret.type = "error"
                /\ out.ret.kind \in {"InvalidFormula", "InvalidEquation"}
        /\ GrammaticalEquation(input.text) => Built
        /\ Outcome(out.ret) \in {"Mass", "Site"} => out.op = "checkConservation"
        /\ out.op = "checkConservation" =>
                out.ret = checkConservation(obj, Undefined, Undefined).ret

(***************************************************************************)
(* Failure modes of the methods, checked under SpecState.                  *)
(***************************************************************************)
\* C21: on a formula or a state built from accepted text,
\* getElementNumber() and getSiteNumber() return a mapping, and conserve()
\* with another accepted formula or state ends with true or with the Mass
\* or the Site error; no call ends in any other way.
C21_MappingOrVerdict ==
    (pc = "called" /\ input.kind \in {"formula", "state"}) =>
        /\ out.op \in {"getElementNumber", "getSiteNumber"} => IsMap(out.ret)
        /\ out.op = "conserve" => Outcome(out.ret) \in {"true", "Mass", "Site"}

====
